---- MODULE Spec2Model ----
(***************************************************************************)
(* Model of the four maintenance scripts of multi-agent-machine-client:    *)
(*   refactor_dashboard.py, scripts/aggressive-cleanup.py,                 *)
(*   scripts/fix-unused-imports.py, scripts/fix-workflow-coordinator-      *)
(*   imports.py.                                                           *)
(*                                                                         *)
(* A text is a sequence of lexical tokens (strings).  Every whitespace     *)
(* character is a token of its own: " " is a blank and "NL1", "NL2", ...   *)
(* are newline characters; the number only records which line of the text  *)
(* as first read the newline ended, the scripts treat all of them alike.   *)
(* Identifiers, keywords, punctuation marks and quoted module paths are    *)
(* one token each.  The regular expressions of the scripts are translated  *)
(* to matchers over these tokens: MatchX(s, i) is the index of the last    *)
(* token of the match of X that starts at token i, or 0 when X does not    *)
(* match there.  File-system failures other than a missing file are not    *)
(* modelled.                                                               *)
(***************************************************************************)
EXTENDS Integers, Sequences, FiniteSets, TLC

\* ------------------------------------------------------------------------
\* Bounds of the model
\* ------------------------------------------------------------------------
MaxRuns == 2
MaxItems == 2
MaxLead == 1

\* ------------------------------------------------------------------------
\* Tokens
\* ------------------------------------------------------------------------
NLTok == <<"NL1", "NL2", "NL3", "NL4", "NL5", "NL6">>

NLSet == {NLTok[k] : k \in 1..Len(NLTok)}

NLTag == [t \in NLSet |-> CHOOSE k \in 1..Len(NLTok) : NLTok[k] = t]

IsNL(t) == t \in NLSet

IsWS(t) == t = " " \/ IsNL(t)

\* a quoted string literal '...' or "..." with a non-empty body
QuotedTokens == {"'x'", "\"x\"", "\"../engine/WorkflowStep.js\"", "'../engine/WorkflowStep.js'",
                 "\"./WorkflowStep.js\"", "\"../src/workflows/WorkflowCoordinator.js\""}

IsQuoted(t) == t \in QuotedTokens

EOF == "<eof>"

At(s, i) == IF i \in 1..Len(s) THEN s[i] ELSE EOF

\* index of the first token at or after i that is not whitespace (\s*)
RECURSIVE SkipWS(_, _)
SkipWS(s, i) == IF i <= Len(s) /\ IsWS(s[i]) THEN SkipWS(s, i + 1) ELSE i

\* re.sub: scan left to right, replace each match by repl[i], copy the rest
RECURSIVE Replace(_, _, _, _)
Replace(s, ends, repl, i) ==
  IF i > Len(s) THEN <<>>
  ELSE IF ends[i] > 0 THEN repl[i] \o Replace(s, ends, repl, ends[i] + 1)
  ELSE <<s[i]>> \o Replace(s, ends, repl, i + 1)

\* str.count over tokens: number of tokens of s that are in set T
RECURSIVE CountIn(_, _)
CountIn(s, T) ==
  IF s = <<>> THEN 0 ELSE (IF Head(s) \in T THEN 1 ELSE 0) + CountIn(Tail(s), T)

\* ------------------------------------------------------------------------
\* str.split('\n') and '\n'.join
\* ------------------------------------------------------------------------
RECURSIVE SplitNL(_)
SplitNL(s) ==
  IF \A i \in 1..Len(s) : ~IsNL(s[i]) THEN <<s>>
  ELSE LET k == CHOOSE i \in 1..Len(s) : IsNL(s[i]) /\ \A j \in 1..(i - 1) : ~IsNL(s[j])
       IN <<SubSeq(s, 1, k - 1)>> \o SplitNL(SubSeq(s, k + 1, Len(s)))

Seps(s) == SelectSeq(s, IsNL)

RECURSIVE JoinNL(_, _)
JoinNL(lines, seps) ==
  IF Len(lines) = 1 THEN lines[1]
  ELSE lines[1] \o <<seps[1]>> \o JoinNL(Tail(lines), Tail(seps))

\* ------------------------------------------------------------------------
\* scripts/aggressive-cleanup.py: remove_from_import
\* ------------------------------------------------------------------------
\* \{\s*SYM\s*\}
MatchBraceSymBrace(s, i, sym) ==
  IF s[i] # "{" THEN 0
  ELSE LET j == SkipWS(s, i + 1)
           k == SkipWS(s, j + 1)
       IN IF At(s, j) = sym /\ At(s, k) = "}" THEN k ELSE 0

\* ,\s*SYM\s*[,}]
MatchCommaSymEnd(s, i, sym) ==
  IF s[i] # "," THEN 0
  ELSE LET j == SkipWS(s, i + 1)
           k == SkipWS(s, j + 1)
       IN IF At(s, j) = sym /\ At(s, k) \in {",", "}"} THEN k ELSE 0

\* \{\s*SYM\s*,
MatchBraceSymComma(s, i, sym) ==
  IF s[i] # "{" THEN 0
  ELSE LET j == SkipWS(s, i + 1)
           k == SkipWS(s, j + 1)
       IN IF At(s, j) = sym /\ At(s, k) = "," THEN k ELSE 0

\* index of the last newline among the tokens i..j, 0 if there is none
LastNL(s, i, j) ==
  LET C == {k \in i..j : IsNL(s[k])}
  IN IF C = {} THEN 0 ELSE CHOOSE k \in C : \A m \in C : m <= k

\* import\s+\{\s*\}\s+from\s+['"][^'"]+['"];\s*\n
MatchEmptyImport(s, i) ==
  IF s[i] # "import" THEN 0
  ELSE LET a == SkipWS(s, i + 1)
           b == SkipWS(s, a + 1)
           c == SkipWS(s, b + 1)
           d == SkipWS(s, c + 1)
           e == SkipWS(s, d + 2)
       IN IF /\ a > i + 1 /\ At(s, a) = "{"
             /\ At(s, b) = "}"
             /\ c > b + 1 /\ At(s, c) = "from"
             /\ d > c + 1 /\ IsQuoted(At(s, d))
             /\ At(s, d + 1) = ";"
          THEN LastNL(s, d + 2, e - 1)
          ELSE 0

SubAll(s, ends, r) == Replace(s, ends, [i \in 1..Len(s) |-> r], 1)

\* re.sub(rf'\{{\s*{re.escape(symbol)}\s*\}}', '{}', content)
SubBraceSymBrace(s, symbol) ==
  SubAll(s, [i \in 1..Len(s) |-> MatchBraceSymBrace(s, i, symbol)], <<"{", "}">>)

\* re.sub(rf',\s*{re.escape(symbol)}\s*[,}}]', ',', content)
SubCommaSymEnd(s, symbol) ==
  SubAll(s, [i \in 1..Len(s) |-> MatchCommaSymEnd(s, i, symbol)], <<",">>)

\* re.sub(rf'\{{\s*{re.escape(symbol)}\s*,', '{', content)
SubBraceSymComma(s, symbol) ==
  SubAll(s, [i \in 1..Len(s) |-> MatchBraceSymComma(s, i, symbol)], <<"{">>)

\* re.sub(r'import\s+\{\s*\}\s+from\s+[\'"][^\'\"]+[\'"];\s*\n', '', content)
SubEmptyImport(s) ==
  SubAll(s, [i \in 1..Len(s) |-> MatchEmptyImport(s, i)], <<>>)

remove_from_import(content, symbol) ==
  SubEmptyImport(SubBraceSymComma(SubCommaSymEnd(SubBraceSymBrace(content, symbol), symbol), symbol))

\* ------------------------------------------------------------------------
\* scripts/aggressive-cleanup.py: remove_parameter
\* ------------------------------------------------------------------------
\* ,\s*PARAM\s*:
MatchCommaParam(s, i, param) ==
  IF s[i] # "," THEN 0
  ELSE LET j == SkipWS(s, i + 1)
           k == SkipWS(s, j + 1)
       IN IF At(s, j) = param /\ At(s, k) = ":" THEN k ELSE 0

\* \(\s*PARAM\s*:
MatchParenParam(s, i, param) ==
  IF s[i] # "(" THEN 0
  ELSE LET j == SkipWS(s, i + 1)
           k == SkipWS(s, j + 1)
       IN IF At(s, j) = param /\ At(s, k) = ":" THEN k ELSE 0

\* index of the first "," or ")" at or after i, Len(s) + 1 if there is none
RECURSIVE FirstStop(_, _)
FirstStop(s, i) ==
  IF i > Len(s) \/ s[i] \in {",", ")"} THEN i ELSE FirstStop(s, i + 1)

\* :\s*[^,)]+,\s*
MatchTypeComma(s, i) ==
  IF s[i] # ":" THEN 0
  ELSE LET j == FirstStop(s, i + 1)
       IN IF j > i + 1 /\ At(s, j) = "," THEN SkipWS(s, j + 1) - 1 ELSE 0

SubCommaParam(s, param) ==
  SubAll(s, [i \in 1..Len(s) |-> MatchCommaParam(s, i, param)], <<",">>)

SubParenParam(s, param) ==
  SubAll(s, [i \in 1..Len(s) |-> MatchParenParam(s, i, param)], <<"(">>)

SubTypeComma(s) ==
  SubAll(s, [i \in 1..Len(s) |-> MatchTypeComma(s, i)], <<":", " ">>)

\* the three substitutions on the line
EditLine(line, param) == SubTypeComma(SubParenParam(SubCommaParam(line, param), param))

\* lines[line_num - 1] of Python: index 0 - 1 = -1 is the last line
PyIndex(lines, line_num) == IF line_num = 0 THEN Len(lines) ELSE line_num

remove_parameter(content, param, line_num) ==
  LET lines == SplitNL(content)
      idx == PyIndex(lines, line_num)
  IN IF line_num <= Len(lines)
     THEN JoinNL([lines EXCEPT ![idx] = EditLine(lines[idx], param)], Seps(content))
     ELSE content

\* ------------------------------------------------------------------------
\* scripts/aggressive-cleanup.py: get_unused_items
\* ------------------------------------------------------------------------
\* A line of the lint output is a sequence of tokens; the line that names a
\* file is the path of the file, one token for the root "/" and one for each
\* component.
Phrase == "is defined but never used"

SingleQuoted == {"'foo'", "'bar'"}

Unquote == [t \in SingleQuoted |-> IF t = "'foo'" THEN "foo" ELSE "bar"]

DigitVal == [t \in {"0", "1", "2", "3", "4"} |->
               CASE t = "0" -> 0 [] t = "1" -> 1 [] t = "2" -> 2 [] t = "3" -> 3 [] t = "4" -> 4]

\* str.strip
RECURSIVE StripRight(_)
StripRight(s) ==
  IF s # <<>> /\ IsWS(s[Len(s)]) THEN StripRight(SubSeq(s, 1, Len(s) - 1)) ELSE s

Strip(s) == StripRight(SubSeq(s, SkipWS(s, 1), Len(s)))

\* line.strip().startswith('/Users')
StartsWithUsers(line) ==
  LET t == Strip(line) IN At(t, 1) = "/" /\ At(t, 2) = "Users"

\* "'" in line and 'is defined but never used' in line
IsUnusedWarning(line) ==
  /\ \E i \in 1..Len(line) : line[i] \in SingleQuoted
  /\ \E i \in 1..Len(line) : line[i] = Phrase

\* re.search(r"'([^']+)'", line).group(1)
FirstQuoted(line) ==
  LET k == CHOOSE i \in 1..Len(line) :
             line[i] \in SingleQuoted /\ \A j \in 1..(i - 1) : line[j] \notin SingleQuoted
  IN Unquote[line[k]]

\* re.search(r'^\s*(\d+):', line): the number, -1 when there is no match
LineMatch(line) ==
  LET j == SkipWS(line, 1)
  IN IF At(line, j) \in DOMAIN DigitVal /\ At(line, j + 1) = ":"
     THEN DigitVal[line[j]] ELSE -1

\* unused[current_file].append((line_num, symbol)) on a defaultdict(list);
\* the dict is a sequence of entries in insertion order
Append_unused(unused, file, item) ==
  IF \E k \in 1..Len(unused) : unused[k].file = file
  THEN [k \in 1..Len(unused) |->
          IF unused[k].file = file
          THEN [unused[k] EXCEPT !.items = Append(@, item)] ELSE unused[k]]
  ELSE Append(unused, [file |-> file, items |-> <<item>>])

NoFile == <<>>

RECURSIVE ParseLines(_, _, _)
ParseLines(lines, current_file, unused) ==
  IF lines = <<>> THEN unused
  ELSE LET line == Head(lines)
       IN IF StartsWithUsers(line)
          THEN ParseLines(Tail(lines), Strip(line), unused)
          ELSE IF /\ IsUnusedWarning(line)
                  /\ current_file # NoFile
                  /\ LineMatch(line) >= 0
          THEN ParseLines(Tail(lines), current_file,
                          Append_unused(unused, current_file,
                                        <<LineMatch(line), FirstQuoted(line)>>))
          ELSE ParseLines(Tail(lines), current_file, unused)

get_unused_items(output) == ParseLines(output, NoFile, <<>>)

\* ------------------------------------------------------------------------
\* scripts/aggressive-cleanup.py: main, the loop body for one file
\* ------------------------------------------------------------------------
\* order of the tuples (line_num, symbol): by number, then by string
SymRank == [s \in {"bar", "foo"} |-> IF s = "bar" THEN 1 ELSE 2]

ItemLess(a, b) == a[1] < b[1] \/ (a[1] = b[1] /\ SymRank[a[2]] < SymRank[b[2]])

\* sorted(items, reverse=True)
RECURSIVE SortedReverse(_)
SortedReverse(items) ==
  IF items = <<>> THEN <<>>
  ELSE LET k == CHOOSE i \in 1..Len(items) :
                  /\ \A j \in 1..Len(items) : ~ItemLess(items[i], items[j])
                  /\ \A j \in 1..(i - 1) : ItemLess(items[j], items[i])
           rest == [j \in 1..(Len(items) - 1) |-> IF j < k THEN items[j] ELSE items[j + 1]]
       IN <<items[k]>> \o SortedReverse(rest)

Keywords == {"function", "async", "=>"}

\* any(keyword in content for keyword in ['function', 'async', '=>'])
HasKeyword(content) == \E i \in 1..Len(content) : content[i] \in Keywords

\* one iteration of "for line_num, symbol in sorted(items, reverse=True)"
EditItem(content, item) ==
  LET c1 == remove_from_import(content, item[2])
  IN IF HasKeyword(c1) THEN remove_parameter(c1, item[2], item[1]) ELSE c1

RECURSIVE EditAll(_, _)
EditAll(content, items) ==
  IF items = <<>> THEN content ELSE EditAll(EditItem(content, Head(items)), Tail(items))

\* the record of what each iteration did: the text before it, after the
\* import edit and after the parameter edit
LogEntry(item, pre, mid) ==
  [symbol |-> item[2], line_num |-> item[1], pre |-> pre, mid |-> mid,
   post |-> IF HasKeyword(mid) THEN remove_parameter(mid, item[2], item[1]) ELSE mid]

RECURSIVE EditLog(_, _)
EditLog(content, items) ==
  IF items = <<>> THEN <<>>
  ELSE <<LogEntry(Head(items), content, remove_from_import(content, Head(items)[2]))>>
         \o EditLog(EditItem(content, Head(items)), Tail(items))

\* path.relative_to(Path.cwd()) raises ValueError unless cwd is a prefix
IsRelativeTo(path, dir) ==
  Len(dir) <= Len(path) /\ SubSeq(path, 1, Len(dir)) = dir

\* ------------------------------------------------------------------------
\* scripts/fix-unused-imports.py
\* ------------------------------------------------------------------------
files_to_fix == <<
  <<"src", "workflows", "steps", "ContextStep.ts">>,
  <<"src", "workflows", "steps", "GitOperationStep.ts">>,
  <<"src", "workflows", "steps", "MilestoneStatusCheckStep.ts">>,
  <<"src", "workflows", "steps", "PersonaRequestStep.ts">>,
  <<"src", "workflows", "steps", "PlanEvaluationStep.ts">>,
  <<"src", "workflows", "steps", "PlanningLoopStep.ts">>,
  <<"src", "workflows", "steps", "PlanningStep.ts">>,
  <<"src", "workflows", "steps", "PullTaskStep.ts">>,
  <<"src", "workflows", "steps", "QAStep.ts">>,
  <<"src", "workflows", "steps", "ReviewFailureTasksStep.ts">>,
  <<"src", "workflows", "steps", "SimpleTaskStatusStep.ts">>,
  <<"src", "workflows", "steps", "TaskUpdateStep.ts">>,
  <<"src", "workflows", "steps", "VariableResolutionStep.ts">> >>

\* ['"]\.\.\/engine\/WorkflowStep\.js['"]
EngineModule == {"\"../engine/WorkflowStep.js\"", "'../engine/WorkflowStep.js'"}

\* index of the first "}" at or after i, Len(s) + 1 if there is none
RECURSIVE FirstClose(_, _)
FirstClose(s, i) == IF i > Len(s) \/ s[i] = "}" THEN i ELSE FirstClose(s, i + 1)

\* the places p in lo..hi where ", WorkflowStepConfig" stands
ConfigAt(s, lo, hi) ==
  {p \in lo..(hi - 2) : s[p] = "," /\ s[p + 1] = " " /\ s[p + 2] = "WorkflowStepConfig"}

\* (import\s+{[^}]*), WorkflowStepConfig([^}]*}\s+from\s+['"]..engine..['"])
\* the first group is greedy: it stops at the last ", WorkflowStepConfig"
\* before the closing brace.  The result is <<last token, place p>>.
MatchStepConfig(s, i) ==
  IF s[i] # "import" THEN <<0, 0>>
  ELSE LET a == SkipWS(s, i + 1)
           r == FirstClose(s, a + 1)
           c == SkipWS(s, r + 1)
           d == SkipWS(s, c + 1)
           P == ConfigAt(s, a + 1, r - 1)
       IN IF /\ a > i + 1 /\ At(s, a) = "{"
             /\ r <= Len(s) /\ P # {}
             /\ c > r + 1 /\ At(s, c) = "from"
             /\ d > c + 1 /\ At(s, d) \in EngineModule
          THEN <<d, CHOOSE p \in P : \A q \in P : q <= p>>
          ELSE <<0, 0>>

\* the substitution with r'\1,\2' for r'\1\2': the comma stays behind
FixUnusedSubComma(content) ==
  LET m == [i \in 1..Len(content) |-> MatchStepConfig(content, i)]
  IN Replace(content,
             [i \in 1..Len(content) |-> m[i][1]],
             [i \in 1..Len(content) |->
                IF m[i][1] = 0 THEN <<>>
                ELSE SubSeq(content, i, m[i][2]) \o SubSeq(content, m[i][2] + 3, m[i][1])],
             1)

\* re.sub(pattern, r'\1\2', content)
FixUnusedSub(content) ==
  LET m == [i \in 1..Len(content) |-> MatchStepConfig(content, i)]
  IN Replace(content,
             [i \in 1..Len(content) |-> m[i][1]],
             [i \in 1..Len(content) |->
                IF m[i][1] = 0 THEN <<>>
                ELSE SubSeq(content, i, m[i][2] - 1) \o SubSeq(content, m[i][2] + 3, m[i][1])],
             1)

\* ------------------------------------------------------------------------
\* scripts/fix-workflow-coordinator-imports.py
\* ------------------------------------------------------------------------
files_to_check == <<
  <<"tests", "blockedTaskResolution.test.ts">>,
  <<"tests", "commitAndPush.test.ts">>,
  <<"tests", "handleCoordinator.overrides.test.ts">>,
  <<"tests", "happyPath.test.ts">>,
  <<"tests", "initialPlanningAckAndEval.test.ts">>,
  <<"tests", "processedOnce.test.ts">>,
  <<"tests", "qaFailure.test.ts">>,
  <<"tests", "qaFollowupExecutes.test.ts">>,
  <<"tests", "qaPlanIterationMax.test.ts">>,
  <<"tests", "qaPmGating.test.ts">> >>

\* the tokens whose text contains "WorkflowCoordinator" (once each)
HasCoordinatorText == {"WorkflowCoordinator", "\"../src/workflows/WorkflowCoordinator.js\""}

\* content.count("WorkflowCoordinator")
CountCoordinator(content) == CountIn(content, HasCoordinatorText)

ImportCoordinator == <<"import", " ", "{", " ", "WorkflowCoordinator", " ", "}">>

\* does the token sequence w stand in s at place i
StandsAt(s, i, w) == i + Len(w) - 1 <= Len(s) /\ SubSeq(s, i, i + Len(w) - 1) = w

\* "import { WorkflowCoordinator }" in content
HasImportCoordinator(content) ==
  \E i \in 1..Len(content) : StandsAt(content, i, ImportCoordinator)

\* import \{ WorkflowCoordinator \} from ['\"][^'\"]+['\"];\n
MatchCoordinatorLine(s, i) ==
  IF /\ StandsAt(s, i, ImportCoordinator \o <<" ", "from", " ">>)
     /\ IsQuoted(At(s, i + 10))
     /\ At(s, i + 11) = ";"
     /\ IsNL(At(s, i + 12))
  THEN i + 12 ELSE 0

MatchWord(s, i, w) == IF StandsAt(s, i, w) THEN i + Len(w) - 1 ELSE 0

SubCoordinatorLine(s) ==
  SubAll(s, [i \in 1..Len(s) |-> MatchCoordinatorLine(s, i)], <<>>)

\* re.sub(<the literal text w>, "", s)
SubWord(s, w) == SubAll(s, [i \in 1..Len(s) |-> MatchWord(s, i, w)], <<>>)

FixCoordinatorSub(content) ==
  SubWord(SubWord(SubCoordinatorLine(content), <<",", " ", "WorkflowCoordinator">>),
          <<"WorkflowCoordinator", ",", " ">>)

\* the loop body without the test "count == 1"
FixCoordinatorNewAnyCount(content) ==
  IF CountCoordinator(content) >= 1
  THEN IF HasImportCoordinator(content)
       THEN FixCoordinatorSub(content)
       ELSE content
  ELSE content

\* the text the loop body computes for a file, the text read when the guard
\* "count == 1 and 'import { WorkflowCoordinator }' in content" is false
FixCoordinatorNew(content) ==
  IF CountCoordinator(content) >= 1
  THEN IF CountCoordinator(content) = 1 /\ HasImportCoordinator(content)
       THEN FixCoordinatorSub(content)
       ELSE content
  ELSE content

\* ------------------------------------------------------------------------
\* refactor_dashboard.py
\* ------------------------------------------------------------------------
\* the literal, one element for each line with its newline; the grave accent,
\* which a TLA+ string cannot hold, is written <bq>
new_content == <<
  "import { cfg } from \"./config.js\";",
  "import { fetch } from \"undici\";",
  "import { logger } from \"./logger.js\";",
  "import { ProjectAPI } from \"./dashboard/ProjectAPI.js\";",
  "import { TaskAPI, CreateTaskInput, CreateTaskResult } from \"./dashboard/TaskAPI.js\";",
  "",
  "// Initialize API clients",
  "const projectAPI = new ProjectAPI();",
  "const taskAPI = new TaskAPI();",
  "",
  "// Re-export types for backward compatibility",
  "export type { CreateTaskInput, CreateTaskResult };",
  "",
  "/**",
  " * Fetch context snapshot for a workflow",
  " */",
  "export async function fetchContext(workflowId: string) {",
  "  try {",
  "    // Use context-by-workflow endpoint if available in cfg.dashboardContextEndpoint (overrideable)",
  "    if (cfg.dashboardContextEndpoint && cfg.dashboardContextEndpoint.startsWith('http')) {",
  "      const url = new URL(cfg.dashboardContextEndpoint);",
  "      url.searchParams.set('workflow_id', workflowId);",
  "      url.searchParams.set('limit', '5');",
  "      const r = await fetch(url.toString(), {",
  "        headers: { \"Authorization\": <bq>Bearer ${cfg.dashboardApiKey}<bq> }",
  "      });",
  "      if (!r.ok) throw new Error(<bq>dashboard ${r.status}<bq>);",
  "      const data = await r.json();",
  "      return data;",
  "    }",
  "",
  "    const r = await fetch(<bq>${cfg.dashboardBaseUrl.replace(/\\/$/, '')}/context/by-workflow?workflow_id=${encodeURIComponent(workflowId)}&limit=5<bq>, {",
  "      headers: { \"Authorization\": <bq>Bearer ${cfg.dashboardApiKey}<bq> }",
  "    });",
  "    if (!r.ok) throw new Error(<bq>dashboard ${r.status}<bq>);",
  "    const data = await r.json();",
  "    return data;",
  "  } catch {",
  "    return { projectTree: \"\", fileHotspots: \"\", limits: \"\", personaHints: \"\" };",
  "  }",
  "}",
  "",
  "/**",
  " * Record an event to dashboard",
  " */",
  "export async function recordEvent(ev: any) {",
  "  try {",
  "    const endpoint = <bq>${cfg.dashboardBaseUrl.replace(/\\/$/, '')}/v1/events<bq>;",
  "    await fetch(endpoint, {",
  "      method: \"POST\",",
  "      headers: {",
  "        \"Authorization\": <bq>Bearer ${cfg.dashboardApiKey}<bq>,",
  "        \"Content-Type\": \"application/json\"",
  "      },",
  "      body: JSON.stringify(ev)",
  "    });",
  "  } catch (e) {",
  "    logger.warn(\"dashboard event post failed\", { error: e, event: ev });",
  "  }",
  "}",
  "",
  "// Delegate project operations to ProjectAPI",
  "export async function fetchProjectStatus(projectId: string | null | undefined) {",
  "  return projectAPI.fetchProjectStatus(projectId);",
  "}",
  "",
  "export async function fetchProjectMilestones(projectId: string | null | undefined) {",
  "  return projectAPI.fetchProjectMilestones(projectId);",
  "}",
  "",
  "export async function fetchProjectStatusDetails(projectId: string | null | undefined) {",
  "  return projectAPI.fetchProjectStatusDetails(projectId);",
  "}",
  "",
  "export async function fetchProjectStatusSummary(projectId: string | null | undefined) {",
  "  return projectAPI.fetchProjectStatusSummary(projectId);",
  "}",
  "",
  "export async function fetchProjectTasks(projectId: string) {",
  "  return projectAPI.fetchProjectTasks(projectId);",
  "}",
  "",
  "// Delegate task operations to TaskAPI",
  "export async function createDashboardTask(input: CreateTaskInput): Promise<CreateTaskResult | null> {",
  "  return taskAPI.createDashboardTask(input);",
  "}",
  "",
  "export async function fetchTask(taskId: string): Promise<any | null> {",
  "  return taskAPI.fetchTask(taskId);",
  "}",
  "",
  "export async function updateTaskStatus(",
  "  taskId: string,",
  "  status: string,",
  "  projectId?: string,",
  "  lockVersion?: number",
  "): Promise<CreateTaskResult> {",
  "  return taskAPI.updateTaskStatus(taskId, status, projectId, lockVersion);",
  "}"
>>

DashboardPath == <<"/", "Users", "jamescoghlan", "code", "multi-agent-machine-client", "src", "dashboard.ts">>

\* ------------------------------------------------------------------------
\* The files and the inputs of the model
\* ------------------------------------------------------------------------
ProjectDir == <<"/", "Users", "jamescoghlan", "code", "multi-agent-machine-client">>

UsersFile == ProjectDir \o <<"src", "a.ts">>

TmpFile == <<"/", "tmp", "a.ts">>

\* a file that no script names
OtherFile == <<"src", "unlisted.ts">>

Range(f) == {f[i] : i \in DOMAIN f}

AllPaths == {DashboardPath, UsersFile, TmpFile, OtherFile}
              \cup Range(files_to_fix) \cup Range(files_to_check)

Absent == <<"<absent>">>

Exists(files, path) == path \in DOMAIN files /\ files[path] # Absent

\* the lines, each ended by its newline
RECURSIVE Text(_, _)
Text(lines, k) ==
  IF lines = <<>> THEN <<>>
  ELSE lines[1] \o <<NLTok[k]>> \o Text(Tail(lines), k + 1)

NoTrail(t) == SubSeq(t, 1, Len(t) - 1)

SeqsUpTo(S, n) == UNION {[1..k -> S] : k \in 0..n}

\* import { <symbols> } from <module>;
RECURSIVE SymList(_)
SymList(syms) ==
  IF Len(syms) = 1 THEN <<syms[1]>>
  ELSE <<syms[1], ",", " ">> \o SymList(Tail(syms))

MkImport(syms, module, semi) ==
  <<"import", " ", "{", " ">> \o SymList(syms) \o <<" ", "}", " ", "from", " ", module>>
    \o (IF semi THEN <<";">> ELSE <<>>)

FunctionLine(p1, p2) ==
  <<"function", " ", "f", "(", p1, ":", " ", "string", ",", " ", p2, ":", " ", "number", ")", " ", "{">>

CallLine(a, b, c) == <<"g", "(", a, ",", " ", b, ",", " ", c, ")", ";">>

CleanupLines ==
  { MkImport(<<"foo">>, "'x'", TRUE),
    MkImport(<<"bar", "foo">>, "'x'", TRUE),
    MkImport(<<"foo", "bar">>, "'x'", TRUE),
    MkImport(<<"bar", "foo", "baz">>, "'x'", TRUE),
    FunctionLine("bar", "foo"),
    FunctionLine("bar", "baz"),
    CallLine("bar", "foo", "baz") }

LeadLines(n) == [k \in 1..n |-> <<>>]

CleanupTexts ==
  LET full == {Text(LeadLines(n) \o body, 1) :
                 n \in 0..MaxLead, body \in SeqsUpTo(CleanupLines, 2) \ {<<>>}}
  IN full \cup {NoTrail(t) : t \in full}

CwdSamples == {<<"/">>, ProjectDir \o <<"scripts">>}

DigitTok == <<"0", "1", "2", "3", "4">>

LineNums == 0..(MaxLead + 2)

DiagLine(n, q) ==
  <<" ", " ", DigitTok[n + 1], ":", "10", " ", " ", "warning", " ", " ", q, " ", Phrase>>

DiagLines == {DiagLine(n, "'foo'") : n \in LineNums}

\* the warnings of one file: the linter lists them by rising line number
DiagSeqs ==
  {[k \in DOMAIN d |-> DiagLine(d[k], "'foo'")] :
     d \in {e \in SeqsUpTo(LineNums, MaxItems) :
              \A i \in DOMAIN e : \A j \in DOMAIN e : i < j => e[i] < e[j]}}

\* a warning without its line number, another warning, the summary line
OtherLines ==
  { <<" ", " ", "warning", " ", " ", "'foo'", " ", Phrase>>,
    <<" ", " ", "1", ":", "10", " ", " ", "warning", " ", " ", "'foo'", " ",
      "is assigned a value but never used">>,
    <<"2", " ", "problems">> }

FileLines == {UsersFile, TmpFile}

LintOutputs ==
  {<<f>> \o d : f \in FileLines, d \in DiagSeqs}
    \cup {<<f, d>> : f \in FileLines, d \in OtherLines}
    \cup SeqsUpTo(DiagLines, 1)
    \cup {<<f1, DiagLine(1, "'foo'"), f2, DiagLine(1, "'bar'")>> : f1 \in FileLines, f2 \in FileLines}

EngineQ == "\"../engine/WorkflowStep.js\""

FixUnusedLines ==
  { MkImport(<<"A", "WorkflowStepConfig", "B">>, EngineQ, TRUE),
    MkImport(<<"A", "WorkflowStepConfig", "WorkflowStepConfig">>, EngineQ, TRUE),
    MkImport(<<"A", "WorkflowStepConfig", "B">>, "\"./WorkflowStep.js\"", TRUE),
    MkImport(<<"A", "WorkflowStepConfig">>, EngineQ, TRUE),
    MkImport(<<"WorkflowStepConfig", "B">>, EngineQ, TRUE),
    CallLine("A", "WorkflowStepConfig", "B") }

FixUnusedTexts == {Text(body, 1) : body \in SeqsUpTo(FixUnusedLines, 2) \ {<<>>}}

FixCoordinatorLines ==
  { MkImport(<<"WorkflowCoordinator">>, "\"x\"", TRUE),
    MkImport(<<"WorkflowCoordinator">>, "\"x\"", FALSE),
    MkImport(<<"WorkflowCoordinator">>, "\"../src/workflows/WorkflowCoordinator.js\"", TRUE),
    MkImport(<<"A", "WorkflowCoordinator">>, "\"x\"", TRUE),
    MkImport(<<"WorkflowCoordinator", "A">>, "\"x\"", TRUE),
    CallLine("A", "WorkflowCoordinator", "B"),
    CallLine("A", "B", "B") }

FixCoordinatorTexts == {Text(body, 1) : body \in SeqsUpTo(FixCoordinatorLines, 2) \ {<<>>}}

DashboardPrior ==
  {Absent, <<>>, new_content, Tail(new_content), Append(new_content, "// old")}
    \cup FixUnusedTexts

\* ------------------------------------------------------------------------
\* State
\* ------------------------------------------------------------------------
VARIABLES
  script,    \* the script that is run
  pc,        \* where the script is: "start", "loop", "done", "crashed"
  run,       \* how many times the script has been started
  fs,        \* the file system: path -> text, Absent for a missing file
  before,    \* the file system when the current run started
  writes,    \* path -> number of write_text / write calls of the current run
  reads,     \* the paths read by the current run
  cwd,       \* Path.cwd()
  output,    \* aggressive-cleanup: the captured lint output, as lines
  unused,    \* aggressive-cleanup: the dict returned by get_unused_items
  idx,       \* the position of the loop over the files
  log,       \* aggressive-cleanup: what the item loop did to the last file
  testRuns   \* aggressive-cleanup: number of runs of "npm test"

vars == <<script, pc, run, fs, before, writes, reads, cwd, output, unused, idx, log, testRuns>>

Files(subject, text, others, listed) ==
  [p \in AllPaths |->
     IF p = subject THEN text
     ELSE IF p \in listed THEN others
     ELSE IF p = OtherFile THEN Text(<<CallLine("A", "B", "B")>>, 1)
     ELSE Absent]

InitCommon ==
  /\ run = 1
  /\ before = fs
  /\ writes = [p \in AllPaths |-> 0]
  /\ reads = {}
  /\ output = <<>>
  /\ unused = <<>>
  /\ idx = 1
  /\ log = <<>>
  /\ testRuns = 0

InitDashboard ==
  /\ script = "dashboard"
  /\ pc = "start"
  /\ cwd = <<"/">>
  /\ \E c \in DashboardPrior : fs = Files(DashboardPath, c, Absent, {})
  /\ InitCommon

InitCleanup ==
  /\ script = "cleanup"
  /\ pc = "start"
  /\ cwd \in CwdSamples
  /\ \E c \in CleanupTexts \cup {Absent} : fs = Files(UsersFile, c, c, {TmpFile})
  /\ InitCommon

InitFixUnused ==
  /\ script = "fixUnused"
  /\ pc = "loop"
  /\ cwd = <<"/">>
  /\ \E k \in 1..Len(files_to_fix), c \in FixUnusedTexts \cup {Absent},
        o \in {Absent, Text(<<MkImport(<<"A", "WorkflowStepConfig">>, EngineQ, TRUE)>>, 1)} :
       fs = Files(files_to_fix[k], c, o, Range(files_to_fix))
  /\ InitCommon

InitFixCoordinator ==
  /\ script = "fixCoordinator"
  /\ pc = "loop"
  /\ cwd = <<"/">>
  /\ \E k \in 1..Len(files_to_check), c \in FixCoordinatorTexts \cup {Absent},
        o \in {Absent, Text(<<MkImport(<<"WorkflowCoordinator">>, "\"x\"", TRUE)>>, 1)} :
       fs = Files(files_to_check[k], c, o, Range(files_to_check))
  /\ InitCommon

Init == InitDashboard \/ InitCleanup \/ InitFixUnused \/ InitFixCoordinator

\* path.write_text(text): the file is replaced and the call is counted
WriteText(path, text) ==
  /\ fs' = [fs EXCEPT ![path] = text]
  /\ writes' = [writes EXCEPT ![path] = @ + 1]

\* ------------------------------------------------------------------------
\* refactor_dashboard.py
\* ------------------------------------------------------------------------
\* open(path, 'a') for open(path, 'w'): the text is added to what is there
OpenAppend(prior, text) == IF prior = Absent THEN text ELSE prior \o text

\* with open(path, 'w') as f: f.write(text): what the file holds afterwards
OpenWrite(prior, text) == text

Dashboard ==
  /\ script = "dashboard" /\ pc = "start"
  /\ WriteText(DashboardPath, OpenWrite(fs[DashboardPath], new_content))
  /\ pc' = "done"
  /\ UNCHANGED <<script, run, before, reads, cwd, output, unused, idx, log, testRuns>>

\* ------------------------------------------------------------------------
\* scripts/aggressive-cleanup.py: main
\* ------------------------------------------------------------------------
\* unused = get_unused_items(); if not unused: return
MainStart ==
  /\ script = "cleanup" /\ pc = "start"
  /\ \E out \in LintOutputs :
       /\ output' = out
       /\ unused' = get_unused_items(out)
       /\ pc' = IF get_unused_items(out) = <<>> THEN "done" ELSE "loop"
  /\ UNCHANGED <<script, run, fs, before, writes, reads, cwd, idx, log, testRuns>>

\* the text main computes for a file from the text read and the items
MainNew(content, items) == EditAll(content, SortedReverse(items))

\* if content != original
MainWrites(content, new) == new # content

\* one iteration of "for filepath, items in unused.items()"
MainFile ==
  /\ script = "cleanup" /\ pc = "loop" /\ idx <= Len(unused)
  /\ LET path == unused[idx].file
         items == unused[idx].items
     IN IF ~Exists(fs, path)
        THEN /\ idx' = idx + 1
             /\ UNCHANGED <<pc, fs, writes, reads, log>>
        ELSE IF ~IsRelativeTo(path, cwd)
        THEN /\ pc' = "crashed"
             /\ UNCHANGED <<idx, fs, writes, reads, log>>
        ELSE /\ reads' = reads \cup {path}
             /\ log' = EditLog(fs[path], SortedReverse(items))
             /\ IF MainWrites(fs[path], MainNew(fs[path], items))
                THEN WriteText(path, MainNew(fs[path], items))
                ELSE UNCHANGED <<fs, writes>>
             /\ idx' = idx + 1
             /\ UNCHANGED pc
  /\ UNCHANGED <<script, run, before, cwd, output, unused, testRuns>>

\* subprocess.run(['npm', 'test'], ...)
MainRunTests ==
  /\ script = "cleanup" /\ pc = "loop" /\ idx > Len(unused)
  /\ testRuns' = testRuns + 1
  /\ pc' = "done"
  /\ UNCHANGED <<script, run, fs, before, writes, reads, cwd, output, unused, idx, log>>

\* ------------------------------------------------------------------------
\* scripts/fix-unused-imports.py: the loop over files_to_fix
\* ------------------------------------------------------------------------
\* the loop body without the test "if new_content != content"
FixUnusedWritesAlways(content, new) == TRUE

\* if new_content != content
FixUnusedWrites(content, new) == new # content

FixUnusedFile ==
  /\ script = "fixUnused" /\ pc = "loop" /\ idx <= Len(files_to_fix)
  /\ LET path == files_to_fix[idx]
     IN IF ~Exists(fs, path)
        THEN UNCHANGED <<fs, writes, reads>>
        ELSE /\ reads' = reads \cup {path}
             /\ IF FixUnusedWrites(fs[path], FixUnusedSub(fs[path]))
                THEN WriteText(path, FixUnusedSub(fs[path]))
                ELSE UNCHANGED <<fs, writes>>
  /\ idx' = idx + 1
  /\ UNCHANGED <<script, pc, run, before, cwd, output, unused, log, testRuns>>

FixUnusedDone ==
  /\ script = "fixUnused" /\ pc = "loop" /\ idx > Len(files_to_fix)
  /\ pc' = "done"
  /\ UNCHANGED <<script, run, fs, before, writes, reads, cwd, output, unused, idx, log, testRuns>>

\* ------------------------------------------------------------------------
\* scripts/fix-workflow-coordinator-imports.py: the loop over files_to_check
\* ------------------------------------------------------------------------
\* if new_content != content
FixCoordinatorWrites(content, new) == new # content

FixCoordinatorFile ==
  /\ script = "fixCoordinator" /\ pc = "loop" /\ idx <= Len(files_to_check)
  /\ LET path == files_to_check[idx]
     IN IF ~Exists(fs, path)
        THEN UNCHANGED <<fs, writes, reads>>
        ELSE /\ reads' = reads \cup {path}
             /\ IF FixCoordinatorWrites(fs[path], FixCoordinatorNew(fs[path]))
                THEN WriteText(path, FixCoordinatorNew(fs[path]))
                ELSE UNCHANGED <<fs, writes>>
  /\ idx' = idx + 1
  /\ UNCHANGED <<script, pc, run, before, cwd, output, unused, log, testRuns>>

FixCoordinatorDone ==
  /\ script = "fixCoordinator" /\ pc = "loop" /\ idx > Len(files_to_check)
  /\ pc' = "done"
  /\ UNCHANGED <<script, run, fs, before, writes, reads, cwd, output, unused, idx, log, testRuns>>

\* the developer starts an import fixer again
Rerun ==
  /\ script \in {"fixUnused", "fixCoordinator"} /\ pc = "done" /\ run < MaxRuns
  /\ run' = run + 1
  /\ pc' = "loop"
  /\ idx' = 1
  /\ before' = fs
  /\ writes' = [p \in AllPaths |-> 0]
  /\ reads' = {}
  /\ UNCHANGED <<script, fs, cwd, output, unused, log, testRuns>>

Next ==
  \/ Dashboard
  \/ MainStart
  \/ MainFile
  \/ MainRunTests
  \/ FixUnusedFile
  \/ FixUnusedDone
  \/ FixCoordinatorFile
  \/ FixCoordinatorDone
  \/ Rerun

Spec == Init /\ [][Next]_vars

\* ------------------------------------------------------------------------
\* Observations on texts used by the properties
\* ------------------------------------------------------------------------
Lines(text) == IF text = Absent THEN <<>> ELSE SplitNL(text)

HasLine(text, line) == \E k \in 1..Len(Lines(text)) : Lines(text)[k] = line

Mentions(line, T) == \E i \in 1..Len(line) : line[i] \in T

IsImport(line) == At(line, 1) = "import"

\* the symbols between the braces of an import line
ImportSyms(line) ==
  LET a == CHOOSE i \in 1..Len(line) : line[i] = "{" /\ \A j \in 1..(i - 1) : line[j] # "{"
      r == FirstClose(line, a + 1)
  IN SelectSeq(SubSeq(line, a + 1, r - 1), LAMBDA t : t \notin {",", " "})

\* an import line written as MkImport writes it
IsPlainImport(line) ==
  /\ IsImport(line) /\ Mentions(line, {"{"}) /\ Mentions(line, {"}"})
  /\ Len(line) >= 10
  /\ ImportSyms(line) # <<>>
  /\ \E semi \in BOOLEAN :
       line = MkImport(ImportSyms(line), line[Len(line) - (IF semi THEN 1 ELSE 0)], semi)

Without(syms, symbol) == SelectSeq(syms, LAMBDA t : t # symbol)

\* what remove_from_import is to make of the lines: a plain import line that
\* lists the symbol loses it, or goes with its newline when it lists nothing
\* else, and every other line stays
RECURSIVE Removed(_, _, _)
Removed(lines, seps, symbol) ==
  IF lines = <<>> THEN <<>>
  ELSE LET line == Head(lines)
           sep == IF seps = <<>> THEN <<>> ELSE <<Head(seps)>>
           rest == Removed(Tail(lines), IF seps = <<>> THEN <<>> ELSE Tail(seps), symbol)
       IN IF IsPlainImport(line) /\ Mentions(ImportSyms(line), {symbol})
          THEN IF Without(ImportSyms(line), symbol) = <<>>
               THEN rest
               ELSE MkImport(Without(ImportSyms(line), symbol),
                             line[Len(line) - (IF line[Len(line)] = ";" THEN 1 ELSE 0)],
                             line[Len(line)] = ";") \o sep \o rest
          ELSE line \o sep \o rest

ExpectedRemoval(text, symbol) == Removed(SplitNL(text), Seps(text), symbol)

\* the line of the text as linted that line k of the text is: the number of
\* the newline that ends it; the last line of the file when none does
OriginOf(text, k, original) ==
  IF k <= Len(Seps(text)) THEN NLTag[Seps(text)[k]] ELSE Len(SplitNL(original))

\* the file the item loop of aggressive-cleanup worked on last
LastFile == unused[idx - 1].file

Listed ==
  CASE script = "fixUnused" -> Range(files_to_fix)
    [] script = "fixCoordinator" -> Range(files_to_check)
    [] script = "cleanup" -> {unused[k].file : k \in 1..Len(unused)}
    [] OTHER -> {DashboardPath}

\* the file the loop of the running script is at
Current ==
  CASE script = "fixUnused" /\ idx <= Len(files_to_fix) -> {files_to_fix[idx]}
    [] script = "fixCoordinator" /\ idx <= Len(files_to_check) -> {files_to_check[idx]}
    [] script = "cleanup" /\ idx <= Len(unused) -> {unused[idx].file}
    [] OTHER -> {}

Ended == pc \in {"done", "crashed"}

\* ------------------------------------------------------------------------
\* Properties
\* ------------------------------------------------------------------------
\* C1: when the lint output is the line of /tmp/a.ts followed by the one
\* diagnostic "3:<col> ... 'foo' is defined but never used" and /tmp/a.ts
\* exists with foo in a destructured import on line 3, then once main() has
\* ended the file has been written and no import of it lists foo.
C1_DeadCodeEndToEnd ==
  ( /\ script = "cleanup" /\ Ended
    /\ output = <<TmpFile, DiagLine(3, "'foo'")>>
    /\ Exists(before, TmpFile)
    /\ Len(Lines(before[TmpFile])) >= 3
    /\ IsPlainImport(Lines(before[TmpFile])[3])
    /\ Mentions(ImportSyms(Lines(before[TmpFile])[3]), {"foo"}) )
  => /\ writes[TmpFile] >= 1
     /\ \A k \in 1..Len(Lines(fs[TmpFile])) :
          IsImport(Lines(fs[TmpFile])[k]) => ~Mentions(Lines(fs[TmpFile])[k], {"foo"})

\* the text names WorkflowCoordinator in one line only, an import line
OnlyInImportLine(text) ==
  /\ Cardinality({k \in 1..Len(Lines(text)) : Mentions(Lines(text)[k], HasCoordinatorText)}) = 1
  /\ \A k \in 1..Len(Lines(text)) :
       Mentions(Lines(text)[k], HasCoordinatorText)
         => IsPlainImport(Lines(text)[k])
            /\ Mentions(ImportSyms(Lines(text)[k]), {"WorkflowCoordinator"})

ImportsCoordinator(text) ==
  \E k \in 1..Len(Lines(text)) :
    IsImport(Lines(text)[k]) /\ Mentions(Lines(text)[k], {"WorkflowCoordinator"})

\* C2: fix-workflow-coordinator-imports: every listed file that exists and
\* names WorkflowCoordinator only in its import line, whatever the shape of
\* that line, no longer imports WorkflowCoordinator after the run.
C2_CoordinatorImportRemoved ==
  (script = "fixCoordinator" /\ pc = "done")
  => \A p \in Range(files_to_check) :
       (Exists(before, p) /\ OnlyInImportLine(before[p])) => ~ImportsCoordinator(fs[p])

\* C3: an import fixer run a second time writes no file and leaves every
\* file as the first run left it, for any contents of the listed files.
C3_SecondRunChangesNothing ==
  (script \in {"fixUnused", "fixCoordinator"} /\ run = 2)
  => \A p \in AllPaths : writes[p] = 0 /\ fs[p] = before[p]

ConfigImport == MkImport(<<"A", "WorkflowStepConfig", "B">>, EngineQ, TRUE)

\* C4: fix-unused-imports: every listed file that exists and holds
\* import { A, WorkflowStepConfig, B } from "../engine/WorkflowStep.js" is
\* written, and holds import { A, B } from "../engine/WorkflowStep.js"
\* in its place: the symbol is gone, A and B keep their order, no comma is
\* left over.
C4_StepConfigRemoved ==
  (script = "fixUnused" /\ pc = "done")
  => \A p \in Range(files_to_fix) :
       (Exists(before, p) /\ HasLine(before[p], ConfigImport))
         => /\ writes[p] = 1
            /\ HasLine(fs[p], MkImport(<<"A", "B">>, EngineQ, TRUE))
            /\ ~HasLine(fs[p], ConfigImport)
            /\ Len(Lines(fs[p])) = Len(Lines(before[p]))

C4_Witness ==
  /\ script = "fixUnused" /\ pc = "done" /\ run = 1
  /\ \E p \in Range(files_to_fix) :
       /\ Exists(before, p) /\ HasLine(before[p], ConfigImport)
       /\ p \in reads /\ fs[p] # before[p]

\* C5: the test command is run if and only if the lint parse collected an
\* item: with none, main() ends with no file read or written and no test
\* run; with one or more, the test run is made, exactly once, as the last
\* step.
C5_TestRunIffItems ==
  (script = "cleanup" /\ Ended)
  => /\ (testRuns = 1) <=> (unused # <<>>)
     /\ testRuns <= 1
     /\ unused = <<>> => (reads = {} /\ \A p \in AllPaths : writes[p] = 0 /\ fs[p] = before[p])

\* C6: fix-workflow-coordinator-imports: a listed file in which
\* WorkflowCoordinator occurs twice or more is not written and keeps the
\* content it had before the run.
C6_UsedFileUntouched ==
  script = "fixCoordinator"
  => \A p \in Range(files_to_check) :
       (Exists(before, p) /\ CountCoordinator(before[p]) >= 2)
         => (writes[p] = 0 /\ fs[p] = before[p])

C6_Witness ==
  /\ script = "fixCoordinator" /\ pc = "done"
  /\ \E p \in Range(files_to_check) :
       /\ Exists(before, p) /\ CountCoordinator(before[p]) >= 2
       /\ HasImportCoordinator(before[p])
       /\ p \in reads

WriteOnlyOnChangeStep ==
  script \in {"cleanup", "fixUnused", "fixCoordinator"}
  => \A p \in AllPaths :
       (writes'[p] > writes[p] \/ fs'[p] # fs[p])
         => ( /\ p \in Current /\ p \in Listed
              /\ Exists(fs, p)
              /\ fs'[p] # fs[p]
              /\ writes'[p] = writes[p] + 1 )

\* C7: in the dead-code remover and in both import fixers a step writes a
\* file only if it is the existing file the loop is at and the content
\* computed for it differs from the content read; no other file is written,
\* changed or created.
C7_WriteOnlyOnChange == [][WriteOnlyOnChangeStep]_vars

C7_Witness ==
  /\ script = "fixUnused" /\ pc = "done"
  /\ \E p \in reads : writes[p] = 0 /\ fs[p] = before[p]
  /\ \E p \in reads : writes[p] = 1 /\ fs[p] # before[p]
  /\ Exists(fs, OtherFile) /\ writes[OtherFile] = 0

\* C8: whatever the target file held before, nothing included, after the
\* dashboard script has run it holds exactly new_content.
C8_DashboardRewritten ==
  (script = "dashboard" /\ pc = "done") => fs[DashboardPath] = new_content

C8_Witness ==
  /\ script = "dashboard" /\ pc = "done"
  /\ before[DashboardPath] \notin {Absent, new_content}
  /\ writes[DashboardPath] = 1

\* C9: remove_from_import(content, symbol) turns every destructured import
\* that lists the symbol, in any position, into the import without it: the
\* other symbols in their order between both braces, the statement gone
\* when the symbol was alone; all other text is as it was.
C9_RemoveFromImport ==
  \A k \in 1..Len(log) : log[k].mid = ExpectedRemoval(log[k].pre, log[k].symbol)

\* C10: the remove_parameter edit of each item changes no line but the one
\* the lint output reported for it in the file as linted, and changes
\* nothing when the line number is outside 1..number-of-lines.
C10_ParameterLineOnly ==
  \A k \in 1..Len(log) :
    LET m == SplitNL(log[k].mid)
        q == SplitNL(log[k].post)
    IN /\ Len(q) = Len(m)
       /\ log[k].line_num \notin 1..Len(m) => log[k].post = log[k].mid
       /\ \A j \in 1..Len(m) :
            q[j] # m[j] => OriginOf(log[k].mid, j, before[LastFile]) = log[k].line_num

====
